---- MODULE Spec2Model ----
(***************************************************************************)
(* A model of wavetorch's recurrent wave cell (wavetorch/core/cell.py) and *)
(* of the geometry set-up performed by study/vowel_train.py.               *)
(*                                                                         *)
(* Conventions.                                                            *)
(*  - Python's None is the empty sequence None, a present value v is       *)
(*    Some(v) = <<v>>.                                                      *)
(*  - Grid indices are 0-based, as in the source.                          *)
(*  - A call that raises returns a record [kind |-> <exception class>].    *)
(***************************************************************************)
EXTENDS Integers, Sequences, FiniteSets, TLC

VARIABLES
    pc,             \* position of the running script / call
    cfg,            \* the configuration (the arguments of the call)
    probes, source, \* results of setup_probe_coords and setup_src_coords
    b_boundary,     \* WaveCell.b_boundary (SpecBoundary: as init_b returns it)
    design_region,  \* WaveCell.design_region
    rho,            \* WaveCell.rho, the trainable parameter
    clip_state,     \* what last wrote rho: "constructed", "updated", "clipped"
    x,              \* forward(): the input batch
    probe_output,   \* forward(): the flag of the same name
    proj,           \* forward(): the local rho = self.proj_rho()
    y1, y2,         \* forward(): the lag states
    y,              \* forward()/step(): the field being computed
    y_all,          \* forward(): the list of emitted fields
    out,            \* the value forward() returned
    ref,            \* an earlier call of forward() (input, flag, output)
    hist,           \* integrate_probe_points: its argument y
    scores          \* integrate_probe_points: its result

coordVars == <<probes, source>>
cellVars == <<b_boundary, design_region, rho, clip_state>>
fwdVars == <<x, probe_output, proj, y1, y2, y, y_all, out, ref>>
probeVars == <<hist, scores>>
vars == <<pc, cfg, coordVars, cellVars, fwdVars, probeVars>>

----------------------------------------------------------------------------
(* Python values *)

None == <<>>
Some(v) == <<v>>
Get(o) == o[1]

Raise(kind, msg) == [kind |-> kind, msg |-> msg]
Ok(xs, ys) == [kind |-> "ok", x |-> xs, y |-> ys]

\* A variant that rounds the quotient up instead of truncating it.
int_div_ceil(n, d) == -((-n) \div d)

\* int(n / d) for d > 0: true division followed by truncation toward zero.
int_div(n, d) == IF n >= 0 THEN n \div d ELSE -((-n) \div d)

RECURSIVE Pow(_, _)
Pow(b, e) == IF e = 0 THEN 1 ELSE b * Pow(b, e - 1)

----------------------------------------------------------------------------
(* cell.py: the coordinate set-up *)

\* The offset of the default source and probe columns from the PML.
DefaultOffset == 20

setup_src_coords(src_x, src_y, Nx, Ny, Npml) ==
    IF src_x # None /\ src_y # None
    THEN <<Get(src_x), Get(src_y)>>
    ELSE <<Npml + DefaultOffset, int_div(Ny, 2)>>

\* The message of the final raise has three replacement fields and is
\* formatted with one argument.
FormatFields == 3
FormatArgs == 1

\* str.format raises IndexError when a replacement field has no argument;
\* the ValueError is constructed only from a formatted message.
invalid_probe_configuration ==
    IF FormatFields > FormatArgs
    THEN Raise("IndexError", "Replacement index 1 out of range")
    ELSE Raise("ValueError", "invalid probe configuration")

setup_probe_coords(N_classes, px, py, pd, Nx, Ny, Npml) ==
    IF py # None /\ px # None
    THEN IF Len(Get(px)) # Len(Get(py))
         THEN Raise("AssertionError", "Length of px and py must match")
         ELSE Ok(Get(px), Get(py))
    ELSE IF py = None /\ pd # None
    THEN LET span == (N_classes - 1) * Get(pd)
             y0 == int_div(Ny - span, 2)
             ys == [i \in 1..N_classes |-> y0 + (i - 1) * Get(pd)]
         IN  IF ~(y0 > Npml)
             THEN Raise("AssertionError", "Bottom element of array is inside the PML")
             ELSE IF px # None
             THEN IF Len(Get(px)) # 1
                  THEN Raise("AssertionError",
                             "If py is not specified then px must be of length 1")
                  ELSE Ok([i \in 1..N_classes |-> Get(px)[1]], ys)
             ELSE Ok([i \in 1..N_classes |-> Nx - Npml - DefaultOffset], ys)
    ELSE invalid_probe_configuration

----------------------------------------------------------------------------
(* cell.py: the boundary damping field *)

Cells(Nx, Ny) == (0..(Nx - 1)) \X (0..(Ny - 1))

\* linspace(0, 1, pml_N + 1)[k] ** pml_p, times pml_max, as the numerator of
\* a fraction over b_den(pml_N, pml_p).  linspace(0, 1, 1) is [0].
b_vals(k, pml_N, pml_p, pml_max) == pml_max * Pow(k, pml_p)
b_den(pml_N, pml_p) == IF pml_N = 0 THEN 1 ELSE Pow(pml_N, pml_p)

\* A variant that does not flip the profile at the low edge.
b_axis_unflipped(i, n, pml_N, pml_p, pml_max) ==
    IF i >= n - pml_N - 1 THEN b_vals(i - (n - pml_N - 1), pml_N, pml_p, pml_max)
    ELSE IF i <= pml_N THEN b_vals(i, pml_N, pml_p, pml_max)
    ELSE 0

\* One axis of the damping: the flipped profile on the first pml_N + 1
\* indices, then the profile on the last pml_N + 1 (the later assignment
\* wins where the two slices overlap).
b_axis(i, n, pml_N, pml_p, pml_max) ==
    IF i >= n - pml_N - 1 THEN b_vals(i - (n - pml_N - 1), pml_N, pml_p, pml_max)
    ELSE IF i <= pml_N THEN b_vals(pml_N - i, pml_N, pml_p, pml_max)
    ELSE 0

\* init_b: cell c holds sqrt(n) / d, kept exactly as the pair [n, d].
init_b(Nx, Ny, pml_N, pml_p, pml_max) ==
    [c \in Cells(Nx, Ny) |->
        LET bx == b_axis(c[1], Nx, pml_N, pml_p, pml_max)
            by == b_axis(c[2], Ny, pml_N, pml_p, pml_max)
        IN  [n |-> bx * bx + by * by, d |-> b_den(pml_N, pml_p)]]

IsZero(b) == b.n = 0
IsPositive(b) == b.n > 0 /\ b.d > 0

----------------------------------------------------------------------------
(* Real arithmetic.  A real v is held in fixed point as the integer nearest *)
(* to v * FP; every product and quotient rounds to the nearest unit.        *)

FP == 1000

Round(n, d) == (2 * n + d) \div (2 * d)
Fx(n, d) == Round(n * FP, d)
Mul(a, b) == Round(a * b, FP)
Div(a, b) == IF b > 0 THEN Round(a * FP, b) ELSE -Round(a * FP, -b)
Inv(a) == Div(FP, a)
Abs(a) == IF a < 0 THEN -a ELSE a

RECURSIVE ISqrtIn(_, _, _)
ISqrtIn(n, lo, hi) ==
    IF lo >= hi THEN lo
    ELSE LET mid == (lo + hi + 1) \div 2
         IN  IF mid * mid <= n THEN ISqrtIn(n, mid, hi) ELSE ISqrtIn(n, lo, mid - 1)
\* floor(sqrt(n)) for 0 <= n < 2^30
ISqrt(n) == ISqrtIn(n, 0, 32767)

\* The fixed-point value of sqrt(n) / d, an entry of init_b.
SqrtFx(b) == ISqrt(b.n * FP * FP) \div b.d

\* torch.tanh: the Pade approximant z (27 + z^2) / (27 + 9 z^2) on |z| < 3,
\* saturated at -1 and 1 outside (it is odd, increasing and 0 at 0).
tanh(z) ==
    IF z >= 3 * FP THEN FP
    ELSE IF z <= -3 * FP THEN -FP
    ELSE LET z2 == Mul(z, z)
         IN  Div(Mul(z, 27 * FP + z2), 27 * FP + 9 * z2)

----------------------------------------------------------------------------
(* cell.py: WaveCell *)

\* Defaults of WaveCell.__init__
nl_uth == Fx(1, 1)
eta == Fx(1, 2)
beta == Fx(100, 1)
c0 == Fx(1, 1)
c1 == Fx(9, 10)
pml_p == 4
pml_max == 3
Nconv == 10
\* h = dt * 2.01 / 1.0
Courant == Fx(201, 100)

At(f, i, j) == IF <<i, j>> \in DOMAIN f THEN f[<<i, j>>] ELSE 0

\* conv2d(f, k, padding=1) of one field with a 3x3 kernel k: the input is
\* padded with zeros, k[a][b] weighs the neighbour at offset (a - 2, b - 2).
conv2d(f, k) ==
    [c \in DOMAIN f |->
          Mul(k[1][1], At(f, c[1] - 1, c[2] - 1)) + Mul(k[1][2], At(f, c[1] - 1, c[2]))
        + Mul(k[1][3], At(f, c[1] - 1, c[2] + 1)) + Mul(k[2][1], At(f, c[1], c[2] - 1))
        + Mul(k[2][2], At(f, c[1], c[2]))         + Mul(k[2][3], At(f, c[1], c[2] + 1))
        + Mul(k[3][1], At(f, c[1] + 1, c[2] - 1)) + Mul(k[3][2], At(f, c[1] + 1, c[2]))
        + Mul(k[3][3], At(f, c[1] + 1, c[2] + 1))]

\* The low-pass kernel of proj_rho and init_rho_rand.
LPF == << <<0, Fx(1, 8), 0>>, <<Fx(1, 8), Fx(1, 2), Fx(1, 8)>>, <<0, Fx(1, 8), 0>> >>

\* self.laplacian = h**(-2) * [[0, 1, 0], [1, -4, 1], [0, 1, 0]]
laplacian(dt) ==
    LET h == Mul(dt, Courant)
        hm2 == Inv(Mul(h, h))
    IN  << <<0, hm2, 0>>, <<hm2, -4 * hm2, hm2>>, <<0, hm2, 0>> >>

\* register_buffer("b_boundary", init_b(...)): the field as numbers.
register_buffer(b) == [c \in DOMAIN b |-> SqrtFx(b[c])]

zeros(Nx, Ny) == [c \in Cells(Nx, Ny) |-> 0]

\* A variant that leaves the parameter as it is.
clip_skipped(r, dr) == r

\* clip_to_design_region: self.rho[self.design_region == 0] = 0.0
clip_to_design_region(r, dr) == [c \in DOMAIN r |-> IF dr[c] = 0 THEN 0 ELSE r[c]]

\* self.design_region: the given mask times (b_boundary == 0), or the whole
\* zero-damping area when no mask is given.
init_design_region(mask, b) ==
    [c \in DOMAIN b |->
        LET free == IF b[c] = 0 THEN 1 ELSE 0
        IN  IF mask # None THEN Get(mask)[c] * free ELSE free]

\* A field is tabulated before it is read again: TLC evaluates a function
\* expression anew at every application until it has been compared.
Tabulated(f) == f = f

RECURSIVE blur(_, _)
blur(r, n) ==
    IF n = 0 THEN r
    ELSE LET g == conv2d(r, LPF) IN IF Tabulated(g) THEN blur(g, n - 1) ELSE r

\* init_rho_rand: the drawn field, low-pass filtered Nconv times.
init_rho_rand(drawn) == blur(drawn, Nconv)

proj_rho(r) ==
    LET LPF_rho == conv2d(r, LPF)
    IN  [c \in DOMAIN r |->
            Div(tanh(Mul(beta, eta)) + tanh(Mul(beta, LPF_rho[c] - eta)),
                tanh(Mul(beta, eta)) + tanh(Mul(beta, FP - eta)))]

\* sat_damp(u, uth, b0) = b0 / (1 + abs(u / uth) ** 2)
sat_damp(u, uth, b0) ==
    LET a == Abs(Div(u, uth)) IN Div(b0, FP + Mul(a, a))

\* A variant of the update that feeds a constant drive into every cell.
step_update_driven(cell, yc, yp, rhop) ==
    [r \in DOMAIN yc |-> [c \in DOMAIN yc[r] |-> FP]]

\* step, up to the insertion of the source: the field y computed from the
\* lags yc (y1) and yp (y2) and the projected density rhop, per batch row.
step_update(cell, yc, yp, rhop) ==
    LET dt == cell.dt
        dtm2 == Inv(Mul(dt, dt))
        dtm1 == Inv(dt)
        half == Fx(1, 2)
        two_dtm2 == Div(2 * FP, Mul(dt, dt))
        use_nonlinearity == cell.nl_b0 # 0
    IN  [r \in DOMAIN yc |->
            LET lap == conv2d(yc[r], laplacian(dt))
            IN  [c \in DOMAIN yc[r] |->
                    LET cc == c0 + Mul(c1 - c0, rhop[c])
                        b == IF use_nonlinearity
                             THEN cell.b[c]
                                  + Mul(rhop[c], sat_damp(yc[r][c], nl_uth, cell.nl_b0))
                             ELSE cell.b[c]
                    IN  Mul(Inv(dtm2 + Mul(Mul(b, half), dtm1)),
                            Mul(two_dtm2, yc[r][c])
                            - Mul(dtm2 - Mul(Mul(b, half), dtm1), yp[r][c])
                            + Mul(Mul(cc, cc), lap[c]))]]

\* A variant that inserts the source into every cell of the source row.
insert_source_row(cell, yn, xi) ==
    [r \in DOMAIN yn |->
        [c \in DOMAIN yn[r] |-> IF c[1] = cell.src[1] THEN yn[r][c] + xi[r] ELSE yn[r][c]]]

\* step, the insertion: y[:, src_x, src_y] = y[:, src_x, src_y] + x.squeeze(1)
insert_source(cell, yn, xi) ==
    [r \in DOMAIN yn |-> [yn[r] EXCEPT ![cell.src] = @ + xi[r]]]

\* A variant that starts the lag states from ones.
init_hidden_ones(batch_size, Nx, Ny) ==
    [r \in 1..batch_size |-> [c \in Cells(Nx, Ny) |-> FP]]

\* forward: torch.zeros(batch_size, self.Nx, self.Ny)
init_hidden(batch_size, Nx, Ny) == [r \in 1..batch_size |-> zeros(Nx, Ny)]

\* torch.stack(y_all, dim=1): row r, then time t, then the field.
stack(ys, batch_size) == [r \in 1..batch_size |-> [t \in 1..Len(ys) |-> ys[t][r]]]

----------------------------------------------------------------------------
(* Rational numbers [n, d] in lowest terms; 0/0 is NaN, held as [0, 0]. *)

RECURSIVE Gcd(_, _)
Gcd(a, b) == IF b = 0 THEN a ELSE Gcd(b, a % b)

NaN == [n |-> 0, d |-> 0]
IsNaN(q) == q.d = 0
Frac(n, d) ==
    IF d = 0 THEN NaN
    ELSE LET g == Gcd(Abs(n), Abs(d)) IN [n |-> n \div g, d |-> d \div g]
RatAdd(p, q) == IF IsNaN(p) \/ IsNaN(q) THEN NaN ELSE Frac(p.n * q.d + q.n * p.d, p.d * q.d)

RECURSIVE SumOver(_, _)
\* The sum of f[k] for k in set S.
SumOver(f, S) ==
    IF S = {} THEN 0 ELSE LET k == CHOOSE k \in S : TRUE IN f[k] + SumOver(f, S \ {k})

RECURSIVE RatSum(_, _)
RatSum(f, S) ==
    IF S = {} THEN Frac(0, 1)
    ELSE LET k == CHOOSE k \in S : TRUE IN RatAdd(f[k], RatSum(f, S \ {k}))

\* A variant that normalises by the largest probe energy instead of the sum.
integrate_probe_points_max(ppx, ppy, yh) ==
    [r \in DOMAIN yh |->
        LET I == [k \in DOMAIN ppx |->
                    SumOver([t \in DOMAIN yh[r] |->
                                Abs(yh[r][t][<<ppx[k], ppy[k]>>])
                                * Abs(yh[r][t][<<ppx[k], ppy[k]>>])], DOMAIN yh[r])]
            top == CHOOSE m \in {I[k] : k \in DOMAIN I} : \A k \in DOMAIN I : I[k] <= m
        IN  [k \in DOMAIN ppx |-> Frac(I[k], top)]]

\* integrate_probe_points: I = sum over time of abs(y[:, :, px, py]) ** 2,
\* then I / sum(I) over the probes of a row.  yh[r][t] is the field of row r
\* at step t; the energies are exact and the quotient is a rational.
integrate_probe_points(ppx, ppy, yh) ==
    [r \in DOMAIN yh |->
        LET I == [k \in DOMAIN ppx |->
                    SumOver([t \in DOMAIN yh[r] |->
                                Abs(yh[r][t][<<ppx[k], ppy[k]>>])
                                * Abs(yh[r][t][<<ppx[k], ppy[k]>>])], DOMAIN yh[r])]
        IN  [k \in DOMAIN ppx |-> Frac(I[k], SumOver(I, DOMAIN I))]]

----------------------------------------------------------------------------
(* States of the variables a specification does not use *)

NoCoords == probes = <<>> /\ source = <<>>
NoCell == b_boundary = <<>> /\ design_region = <<>> /\ rho = <<>> /\ clip_state = ""
NoForward ==
    /\ x = <<>> /\ probe_output = FALSE /\ proj = <<>> /\ y1 = <<>> /\ y2 = <<>>
    /\ y = <<>> /\ y_all = <<>> /\ out = <<>> /\ ref = <<>>
NoProbe == hist = <<>> /\ scores = <<>>

----------------------------------------------------------------------------
(* vowel_train.py: the geometry set-up of the training script *)

MaxClasses == 3
MaxDim == 64
MaxPml == 20
MaxSpacing == 6

Dims == {40, MaxDim}
PmlDepths == {0, 10, MaxPml}
Spacings == {None, Some(5), Some(MaxSpacing)}
CoordLists == {None, Some(<<>>), Some(<<5>>), Some(<<20>>), Some(<<5, 20>>), Some(<<20, 20>>)}
SrcCoords == {None, Some(5), Some(20)}

GeomConfigs ==
    [N_classes : 1..MaxClasses, px : CoordLists, py : CoordLists, pd : Spacings,
     Nx : Dims, Ny : Dims, Npml : PmlDepths, pml_p : {1, 2}, pml_max : {3},
     src_x : SrcCoords, src_y : SrcCoords]

InitCoords ==
    /\ pc = "setup"
    /\ cfg \in GeomConfigs
    /\ NoCoords /\ NoCell /\ NoForward /\ NoProbe

\* probes = setup_probe_coords(...): the script goes on when it returns and
\* ends with the exception when it raises.
SetupProbes ==
    /\ pc = "setup"
    /\ probes' = setup_probe_coords(cfg.N_classes, cfg.px, cfg.py, cfg.pd,
                                    cfg.Nx, cfg.Ny, cfg.Npml)
    /\ pc' = IF probes'.kind = "ok" THEN "probes" ELSE "raised"
    /\ UNCHANGED <<cfg, source, cellVars, fwdVars, probeVars>>

\* source = setup_src_coords(...)
SetupSource ==
    /\ pc = "probes"
    /\ source' = setup_src_coords(cfg.src_x, cfg.src_y, cfg.Nx, cfg.Ny, cfg.Npml)
    /\ pc' = "source"
    /\ UNCHANGED <<cfg, probes, cellVars, fwdVars, probeVars>>

NextCoords == SetupProbes \/ SetupSource

SpecCoords == InitCoords /\ [][NextCoords]_vars

----------------------------------------------------------------------------
(* A WaveCell in use: construction, optimizer updates, clipping, forward() *)

MaxT == 2
ZeroT == 10

\* The geometry of the cell under test: a 4x4 grid whose outer ring is the
\* PML, the source and the two probes on the four inner cells.
Geometry == [Nx |-> 4, Ny |-> 4, pml_N |-> 1, src |-> <<1, 1>>,
             px |-> <<2, 2>>, py |-> <<1, 2>>]
Grid == Cells(Geometry.Nx, Geometry.Ny)

\* A design-region argument: the columns x <= 1, PML cells included.
LeftHalf == [c \in Grid |-> IF c[1] <= 1 THEN 1 ELSE 0]

\* A field torch.rand may draw.
RandFields ==
    {[c \in Grid |-> IF (c[1] + c[2]) % 2 = 0 THEN v ELSE w] :
        v \in {Fx(1, 4)}, w \in {Fx(3, 4)}}

\* Values and cells of an optimizer update.
RhoVals == {FP}
UpdateCells == {<<0, 0>>, <<1, 1>>}

XVals == {0, FP}
Seqs(T) == [1..T -> XVals]
ZeroSeq(T) == [t \in 1..T |-> 0]
ShortSeqs == UNION {Seqs(T) : T \in 1..MaxT}
\* Input batches: one row, a row next to an all-zero row, and the long
\* all-zero sequence.
OneRowBatches == {<<s>> : s \in ShortSeqs}
TwoRowBatches == {<<s, ZeroSeq(Len(s))>> : s \in ShortSeqs}
ZeroBatches == {<<ZeroSeq(ZeroT)>>}
InputBatches(track) ==
    IF track THEN OneRowBatches ELSE OneRowBatches \cup TwoRowBatches \cup ZeroBatches

\* Constructor arguments.  track marks the cells whose forward() calls are
\* compared with one another through ref.
CellConfigs ==
    {g \in [dt : {Fx(1, 2), Fx(1, 1)}, nl_b0 : {0, Fx(1, 1)}, init_rand : BOOLEAN,
             design_region : {None, Some(LeftHalf)}, track : BOOLEAN] :
        g.track => (~g.init_rand /\ g.design_region = None /\ g.dt = Fx(1, 1))}

\* The object the methods see as self.
Self == [dt |-> cfg.dt, nl_b0 |-> cfg.nl_b0, b |-> b_boundary, src |-> Geometry.src]

\* WaveCell.__init__
Init ==
    /\ pc = "idle"
    /\ cfg \in CellConfigs
    /\ b_boundary = register_buffer(
                        init_b(Geometry.Nx, Geometry.Ny, Geometry.pml_N, pml_p, pml_max))
    /\ design_region = init_design_region(cfg.design_region, b_boundary)
    /\ \E drawn \in RandFields :
         rho = clip_to_design_region(
                 IF cfg.init_rand THEN init_rho_rand(drawn)
                                  ELSE [c \in Grid |-> Fx(1, 2)],
                 design_region)
    /\ clip_state = "constructed"
    /\ NoForward /\ NoCoords /\ NoProbe

\* The optimizer writes the parameter in place.
OptimizerStep(c, v) ==
    /\ pc = "idle"
    /\ rho' = [rho EXCEPT ![c] = v]
    /\ clip_state' = "updated"
    /\ ref' = None
    /\ UNCHANGED <<pc, cfg, coordVars, b_boundary, design_region, probeVars>>
    /\ UNCHANGED <<x, probe_output, proj, y1, y2, y, y_all, out>>

\* A call of clip_to_design_region()
Clip ==
    /\ pc = "idle"
    /\ rho' = clip_to_design_region(rho, design_region)
    /\ clip_state' = "clipped"
    /\ ref' = None
    /\ UNCHANGED <<pc, cfg, coordVars, b_boundary, design_region, probeVars>>
    /\ UNCHANGED <<x, probe_output, proj, y1, y2, y, y_all, out>>

\* forward(x, probe_output), up to the loop
ForwardBegin(xb, po) ==
    /\ pc = "idle"
    /\ x' = xb
    /\ probe_output' = po
    /\ y1' = init_hidden(Len(xb), Geometry.Nx, Geometry.Ny)
    /\ y2' = init_hidden(Len(xb), Geometry.Nx, Geometry.Ny)
    /\ y_all' = <<>>
    /\ proj' = proj_rho(rho)
    /\ y' = None
    /\ out' = None
    /\ pc' = "loop"
    /\ UNCHANGED <<cfg, coordVars, cellVars, ref, probeVars>>

\* One iteration of the loop, the call of step up to the source insertion.
StepUpdate ==
    /\ pc = "loop"
    /\ Len(y_all) < Len(x[1])
    /\ y' = step_update(Self, y1, y2, proj)
    /\ pc' = "inject"
    /\ UNCHANGED <<cfg, coordVars, cellVars, probeVars>>
    /\ UNCHANGED <<x, probe_output, proj, y1, y2, y_all, out, ref>>

\* The rest of the iteration: the source is inserted, step returns
\* (y, y, y1) and the field is appended to y_all.
StepInject ==
    /\ pc = "inject"
    /\ LET xi == [r \in DOMAIN x |-> x[r][Len(y_all) + 1]]
           yn == insert_source(Self, y, xi)
       IN  /\ y' = yn
           /\ y1' = yn
           /\ y2' = y1
           /\ y_all' = Append(y_all, yn)
    /\ pc' = "loop"
    /\ UNCHANGED <<cfg, coordVars, cellVars, probeVars>>
    /\ UNCHANGED <<x, probe_output, proj, out, ref>>

\* The end of forward: the fields are stacked and returned, or integrated
\* at the probes.
ForwardReturn ==
    /\ pc = "loop"
    /\ Len(y_all) = Len(x[1])
    /\ out' = IF probe_output
              THEN integrate_probe_points(Geometry.px, Geometry.py, stack(y_all, Len(x)))
              ELSE stack(y_all, Len(x))
    /\ pc' = "returned"
    /\ UNCHANGED <<cfg, coordVars, cellVars, probeVars>>
    /\ UNCHANGED <<x, probe_output, proj, y1, y2, y, y_all, ref>>

\* The caller is done with the result: the locals of the call are gone.
\* ref keeps this call or the one it held.
Release ==
    /\ pc = "returned"
    /\ \/ ref' = ref
       \/ cfg.track /\ ref' = [x |-> x, probe_output |-> probe_output, out |-> out]
    /\ x' = None /\ probe_output' = FALSE /\ proj' = None /\ y1' = None /\ y2' = None
    /\ y' = None /\ y_all' = None /\ out' = None
    /\ pc' = "idle"
    /\ UNCHANGED <<cfg, coordVars, cellVars, probeVars>>

Next ==
    \/ \E c \in UpdateCells, v \in RhoVals : OptimizerStep(c, v)
    \/ Clip
    \/ \E xb \in InputBatches(cfg.track), po \in BOOLEAN : ForwardBegin(xb, po)
    \/ StepUpdate
    \/ StepInject
    \/ ForwardReturn
    \/ Release

Spec == Init /\ [][Next]_vars

----------------------------------------------------------------------------
(* Properties of the cell *)

OutsideDesignZero == \A c \in Grid : design_region[c] = 0 => rho[c] = 0
InForward == pc \in {"loop", "inject", "returned"}

\* C1 as stated: the clip is re-enforced after every update, so forward()
\* never runs on a rho that is nonzero outside the design region.
C1_Original == InForward => OutsideDesignZero

\* C1 amended: after construction and after every call of
\* clip_to_design_region, every cell of rho outside the design region is 0.
C1_ZeroOutsideAfterClip ==
    clip_state \in {"constructed", "clipped"} => OutsideDesignZero

C1_Witness ==
    /\ clip_state = "clipped" /\ pc = "loop"
    /\ rho[<<1, 1>>] = FP /\ rho[<<0, 0>>] = 0
    /\ cfg.design_region # None

AllZero(f) == \A c \in DOMAIN f : f[c] = 0
Rows == DOMAIN x
IsImpulse(s) == s[1] = FP /\ \A t \in 2..Len(s) : s[t] = 0
IsZeroSeq(s) == \A t \in 1..Len(s) : s[t] = 0

FreshLags ==
    (pc = "loop" /\ y_all = <<>>) =>
        \A r \in Rows : AllZero(y1[r]) /\ AllZero(y2[r])
SameAsEarlierCall ==
    (pc = "returned" /\ ref # None) =>
        ((ref.x = x /\ ref.probe_output = probe_output) => out = ref.out)
ForwardKeepsParameters ==
    (pc # "idle" \/ pc' # "idle") => UNCHANGED <<rho, b_boundary, design_region>>

\* C8: every call of forward starts from all-zero lag states, a call given
\* the input of an earlier call (no parameter update in between) returns
\* the same output, and forward leaves rho, b_boundary and design_region
\* as they are.
C8_ForwardStateless ==
    /\ [](FreshLags /\ SameAsEarlierCall)
    /\ [][ForwardKeepsParameters]_vars

\* An earlier call with another input lies between two calls with the same.
C8_Witness ==
    /\ pc = "returned" /\ ref # None /\ ref.x = x /\ ref.probe_output = probe_output
    /\ Len(x[1]) = 2 /\ ~IsZeroSeq(x[1])

LagsAdvance ==
    (pc = "loop" /\ Len(y_all) >= 1) =>
        /\ y1 = y_all[Len(y_all)]
        /\ y2 = IF Len(y_all) = 1 THEN init_hidden(Len(x), Geometry.Nx, Geometry.Ny)
                                  ELSE y_all[Len(y_all) - 1]

\* C9: the source is inserted after the update and the lags advance
\* y2 <- y1, y1 <- y.  For a unit impulse at step 0: the field computed at
\* step 0 is all-zero before the insertion, output[0] is the impulse at the
\* source cell and zero elsewhere, and output[1] is nonzero at the source.
C9_ImpulseAfterUpdate ==
    /\ LagsAdvance
    /\ InForward =>
        \A r \in Rows : IsImpulse(x[r]) =>
            /\ (pc = "inject" /\ y_all = <<>>) => AllZero(y[r])
            /\ Len(y_all) >= 1 =>
                 \A c \in Grid : y_all[1][r][c] = IF c = Geometry.src THEN FP ELSE 0
            /\ Len(y_all) >= 2 => y_all[2][r][Geometry.src] # 0

C9_Witness ==
    /\ pc = "returned" /\ IsImpulse(x[1]) /\ Len(y_all) = 2
    /\ y_all[2][1][Geometry.src] # 0
    /\ \E c \in Grid : c # Geometry.src /\ y_all[2][1][c] # 0

\* C10: on an all-zero input row every emitted field and both lag states
\* after every step are all-zero, whatever rho is and with the nonlinearity
\* on or off, and forward emits exactly T fields.
C10_NoSpontaneousEnergy ==
    InForward =>
        /\ pc = "returned" => Len(y_all) = Len(x[1])
        /\ \A r \in Rows : IsZeroSeq(x[r]) =>
            /\ \A t \in 1..Len(y_all) : AllZero(y_all[t][r])
            /\ AllZero(y1[r]) /\ AllZero(y2[r])
            /\ pc = "inject" => AllZero(y[r])

C10_Witness ==
    /\ pc = "returned" /\ Len(x[1]) = ZeroT /\ IsZeroSeq(x[1]) /\ Len(y_all) = ZeroT
    /\ cfg.nl_b0 # 0 /\ rho[<<1, 1>>] # 0

----------------------------------------------------------------------------
(* integrate_probe_points over all small field histories *)

MaxVal == 1

\* A 3x1 grid; the probes leave at least one cell unread.
ProbeGrid == Cells(3, 1)
ProbeSets == {[px |-> <<0, 1>>, py |-> <<0, 0>>], [px |-> <<0>>, py |-> <<0>>],
              [px |-> <<1, 1>>, py |-> <<0, 0>>]}
\* (rows, steps) of the history
HistShapes == {<<1, 2>>, <<2, 1>>}
Histories ==
    UNION {[1..sh[1] -> [1..sh[2] -> [ProbeGrid -> (-MaxVal)..MaxVal]]] : sh \in HistShapes}

InitProbe ==
    /\ pc = "integrate"
    /\ cfg \in ProbeSets
    /\ hist \in Histories
    /\ scores = <<>>
    /\ NoCoords /\ NoCell /\ NoForward

Integrate ==
    /\ pc = "integrate"
    /\ scores' = integrate_probe_points(cfg.px, cfg.py, hist)
    /\ pc' = "scored"
    /\ UNCHANGED <<cfg, hist, coordVars, cellVars, fwdVars>>

NextProbe == Integrate

SpecProbe == InitProbe /\ [][NextProbe]_vars

\* The entries of a score vector are non-negative and sum to exactly 1.
Normalised(row) ==
    /\ \A k \in DOMAIN row : ~IsNaN(row[k]) /\ row[k].n >= 0 /\ row[k].d > 0
    /\ RatSum(row, DOMAIN row) = Frac(1, 1)

ProbeCells == {<<cfg.px[k], cfg.py[k]>> : k \in DOMAIN cfg.px}

\* C2 as stated: a history with at least one nonzero field value gives
\* every batch row a non-negative score vector that sums to 1.
C2_Original ==
    (pc = "scored"
     /\ \E r \in DOMAIN hist : \E t \in DOMAIN hist[r] : \E c \in ProbeGrid :
            hist[r][t][c] # 0)
    => \A r \in DOMAIN hist : Normalised(scores[r])

\* C2 amended: every batch row whose history is nonzero at some probe
\* coordinate gets a non-negative score vector that sums to exactly 1.
C2_NormalisedWhenProbeEnergy ==
    pc = "scored" =>
        \A r \in DOMAIN hist :
            (\E t \in DOMAIN hist[r] : \E c \in ProbeCells : hist[r][t][c] # 0)
            => Normalised(scores[r])

C2_Witness ==
    /\ pc = "scored"
    /\ \E r \in DOMAIN hist : \E k \in DOMAIN scores[r] :
          /\ scores[r][k].n > 0 /\ scores[r][k].n < scores[r][k].d
          /\ Normalised(scores[r])

----------------------------------------------------------------------------
(* Properties of the coordinate set-up *)

Returned == pc \in {"probes", "source"}
ProbePairs == {<<probes.x[i], probes.y[i]>> : i \in DOMAIN probes.x \cap DOMAIN probes.y}

\* C3: whenever setup_probe_coords returns, in either mode, it returns
\* N_classes probe pairs and x and y lists of equal length.
C3_ProbeCountIsClasses ==
    Returned => /\ Len(probes.x) = cfg.N_classes
                /\ Len(probes.x) = Len(probes.y)

\* A coordinate pair lies in the grid, at a cell where the damping field
\* init_b builds for the same Nx, Ny, Npml is zero.
OutsidePml(c) ==
    /\ c \in Cells(cfg.Nx, cfg.Ny)
    /\ IsZero(init_b(cfg.Nx, cfg.Ny, cfg.Npml, cfg.pml_p, cfg.pml_max)[c])

\* C4: every probe and source coordinate the set-up returns lies inside the
\* grid and outside the PML (otherwise the set-up has raised).
C4_CoordsOutsidePml ==
    /\ Returned => \A c \in ProbePairs : OutsidePml(c)
    /\ pc = "source" => OutsidePml(source)

\* The exception classes that report a configuration error.
ConfigurationErrors == {"ValueError", "AssertionError"}

BothGiven == cfg.px # None /\ cfg.py # None
SpacingMode == cfg.py = None /\ cfg.pd # None
InvalidCombination ==
    \/ ~BothGiven /\ ~SpacingMode
    \/ SpacingMode /\ cfg.px # None /\ Len(Get(cfg.px)) # 1

\* C5: for every (px, py, pd) other than 'both given' or 'py absent and pd
\* given', and for py absent, pd given and len(px) # 1, setup_probe_coords
\* returns nothing and fails with a configuration error.
C5_InvalidRaisesConfigurationError ==
    (pc # "setup" /\ InvalidCombination) =>
        /\ pc = "raised"
        /\ probes.kind \in ConfigurationErrors

Scenario40 ==
    /\ cfg.Nx = 40 /\ cfg.Ny = 40 /\ cfg.Npml = 10 /\ cfg.N_classes = 2
    /\ cfg.pd = Some(5) /\ cfg.py = None
    /\ (cfg.px = None \/ Len(Get(cfg.px)) = 1)

InPmlRows(v) == v \in 0..9 \/ v \in 30..39

\* C7 as stated: in the 40x40 scenario the probe y-coordinates are [18, 23].
C7_Original ==
    (pc # "setup" /\ Scenario40) => (probes.kind = "ok" /\ probes.y = <<18, 23>>)

\* C7 amended: in the 40x40 scenario (Npml = 10, two classes, spacing 5, no
\* py) the probe y-coordinates are [17, 22], y0 = int(35 / 2) = 17, and
\* neither lies within [0, 10) or [30, 40).
C7_ScenarioProbeYs ==
    (pc # "setup" /\ Scenario40) =>
        /\ probes.kind = "ok"
        /\ probes.y = <<17, 22>>
        /\ \A i \in 1..2 : ~InPmlRows(probes.y[i])

C7_Witness == Scenario40 /\ Returned /\ Len(probes.y) = 2 /\ cfg.px = None

----------------------------------------------------------------------------
(* init_b over all small geometries *)

MaxGrid == 6
MaxDepth == 2
MaxPower == 2
MaxDamp == 2

\* The geometries on which the slice assignments of init_b are well-shaped.
BoundaryConfigs ==
    {g \in [Nx : 1..MaxGrid, Ny : 1..MaxGrid, pml_N : 0..MaxDepth,
             pml_p : 1..MaxPower, pml_max : 1..MaxDamp] :
        g.Nx >= g.pml_N + 1 /\ g.Ny >= g.pml_N + 1}

InitBoundary ==
    /\ pc = "build"
    /\ cfg \in BoundaryConfigs
    /\ NoCoords /\ NoCell /\ NoForward /\ NoProbe

BuildBoundary ==
    /\ pc = "build"
    /\ b_boundary' = init_b(cfg.Nx, cfg.Ny, cfg.pml_N, cfg.pml_p, cfg.pml_max)
    /\ pc' = "built"
    /\ UNCHANGED <<cfg, coordVars, design_region, rho, clip_state, fwdVars, probeVars>>

NextBoundary == BuildBoundary

SpecBoundary == InitBoundary /\ [][NextBoundary]_vars

ValidGeometry == cfg.Nx >= 2 * (cfg.pml_N + 1) /\ cfg.Ny >= 2 * (cfg.pml_N + 1)

\* At least pml_N cells from every edge.
OutsideBand(c) ==
    /\ c[1] >= cfg.pml_N /\ cfg.Nx - 1 - c[1] >= cfg.pml_N
    /\ c[2] >= cfg.pml_N /\ cfg.Ny - 1 - c[2] >= cfg.pml_N

\* C6: on a valid geometry with pml_max > 0 the damping field is exactly
\* zero at every cell outside the PML band and strictly positive at every
\* cell of the band.
C6_ZeroOutsideBandPositiveInside ==
    (pc = "built" /\ ValidGeometry) =>
        \A c \in Cells(cfg.Nx, cfg.Ny) :
            IF OutsideBand(c) THEN IsZero(b_boundary[c])
                              ELSE IsPositive(b_boundary[c])

C6_Witness ==
    /\ pc = "built" /\ ValidGeometry /\ cfg.pml_N = 2
    /\ \E c, e \in Cells(cfg.Nx, cfg.Ny) :
            OutsideBand(c) /\ ~OutsideBand(e) /\ IsPositive(b_boundary[e])

====
